---- MODULE Spec2Model ----
(***************************************************************************)
(* AIClient (src/lib/extension/src/ai/AIClient.ts): the client that owns   *)
(* the OpenAI base URL, asks the ApiKeyManager for the key on every call,  *)
(* builds an OpenAIApiConfiguration and dispatches streamText and          *)
(* generateEmbedding.  The host is single-threaded and event-driven: each  *)
(* action below is one synchronous run of code between two awaits.         *)
(***************************************************************************)
EXTENDS Integers, Sequences, FiniteSets, TLC

VARIABLES
    openAIBaseUrl,   \* AIClient.openAIBaseUrl (a sequence of characters)
    calls,           \* the calls in flight, one per slot (NoCall: a free slot)
    last,            \* history: the call that settled most recently, as settled
    lastUrlArg,      \* history: the raw URL most recently given to the client
    urlSetBy         \* history: who stored it, the constructor or the setter

vars == <<openAIBaseUrl, calls, last, lastUrlArg, urlSetBy>>

---------------------------------------------------------------------------
(* Bounds of the model *)

MaxInFlight == 1     \* calls in flight at once
MaxUrlLen == 4       \* length of the URLs of the URL-only specification

Slots == 1..MaxInFlight

---------------------------------------------------------------------------
(* Values *)

Chars == {"a", ":", "/"}

RECURSIVE SeqsOfLen(_)
SeqsOfLen(n) ==
    IF n = 0 THEN {<<>>}
    ELSE {Append(s, ch) : s \in SeqsOfLen(n - 1), ch \in Chars}

\* every string over Chars up to MaxUrlLen characters
AllUrls == UNION {SeqsOfLen(n) : n \in 0..MaxUrlLen}

\* the URLs given to the client while calls run: no trailing slash, one, two
Urls == {<<"a">>, <<"a", "/">>, <<"a", "/", "/">>}

Undefined == "undefined"
Keys == {"sk-1", "sk-2"}
KeyValues == Keys \cup {Undefined}

ChatModels == {"gpt-4", "gpt-4-32k", "gpt-3.5-turbo", "gpt-3.5-turbo-16k"}
ModelSettings == {"gpt-3.5-turbo-16k", "text-davinci-003"}

Prompts == {"explain", "refactor"}
Inputs == {"text"}

\* what the provider's endpoint can answer to a dispatched request
StreamResponses == {"ok", "fail"}
EmbedResponses == {"ok", "fail", "noUsage"}

---------------------------------------------------------------------------
(* Pure functions *)

\* a mutation of StripTrailingSlash: strips every trailing slash
RECURSIVE StripAllTrailingSlashes(_)
StripAllTrailingSlashes(u) ==
    IF Len(u) > 0 /\ u[Len(u)] = "/"
    THEN StripAllTrailingSlashes(SubSeq(u, 1, Len(u) - 1))
    ELSE u

\* openAIBaseUrl.replace(/\/$/, ""): the regular expression matches one "/"
\* at the very end of the string, and replace() replaces that one match
StripTrailingSlash(u) ==
    IF Len(u) > 0 /\ u[Len(u)] = "/"
    THEN SubSeq(u, 1, Len(u) - 1)
    ELSE u

\* z.enum([...]).parse(setting): the setting itself, or a thrown ZodError
GetOpenAIChatModel(setting) ==
    IF setting \in ChatModels
    THEN [ok |-> TRUE, model |-> setting]
    ELSE [ok |-> FALSE, model |-> setting]

NoCfg == [built |-> FALSE, baseUrl |-> <<>>, apiKey |-> Undefined]

\* a mutation of OpenAIApiConfiguration: no check of the key
ConfigurationUnchecked(url, apiKey) ==
    [built |-> TRUE, baseUrl |-> url, apiKey |-> apiKey]

\* getOpenAIApiConfiguration after its await: throws when the key is
\* undefined (no configuration is built), else builds the configuration from
\* the base URL and the key
OpenAIApiConfiguration(url, apiKey) ==
    IF apiKey = Undefined
    THEN NoCfg
    ELSE [built |-> TRUE, baseUrl |-> url, apiKey |-> apiKey]

---------------------------------------------------------------------------
(* The observable events of a call, in the order the call makes them *)

LogEvent(prompt) ==
    [ev |-> "log",
     lines |-> <<"--- Start OpenAI prompt ---", prompt, "--- End OpenAI prompt ---">>,
     baseUrl |-> <<>>, apiKey |-> Undefined]

CredEvent == [ev |-> "cred", lines |-> <<>>, baseUrl |-> <<>>, apiKey |-> Undefined]

NetEvent(cfg) ==
    [ev |-> "net", lines |-> <<>>, baseUrl |-> cfg.baseUrl, apiKey |-> cfg.apiKey]

Pending == [settle |-> "pending", type |-> "none", error |-> "none"]
Rejected(e) == [settle |-> "rejected", type |-> "none", error |-> e]
Stream == [settle |-> "resolved", type |-> "stream", error |-> "none"]
EmbedSuccess == [settle |-> "resolved", type |-> "success", error |-> "none"]
EmbedError(e) == [settle |-> "resolved", type |-> "error", error |-> e]

\* baseUrlAtStart is history: the base URL stored when the call was invoked
NewCall(op, prompt, trace) ==
    [op |-> op, pc |-> "awaitKey", prompt |-> prompt, cfg |-> NoCfg,
     keyReturned |-> "pending", modelSetting |-> "unread", response |-> "none",
     outcome |-> Pending, trace |-> trace, baseUrlAtStart |-> openAIBaseUrl]

NoCall ==
    [op |-> "none", pc |-> "none", prompt |-> "none", cfg |-> NoCfg,
     keyReturned |-> "pending", modelSetting |-> "unread", response |-> "none",
     outcome |-> Pending, trace |-> <<>>, baseUrlAtStart |-> <<>>]

InFlight == {i \in Slots : calls[i].op # "none"}

---------------------------------------------------------------------------
(* new AIClient({apiKeyManager, logger, openAIBaseUrl}) *)

Constructor(urls) ==
    /\ \E u \in urls :
         /\ openAIBaseUrl = StripTrailingSlash(u)
         /\ lastUrlArg = u
    /\ urlSetBy = "constructor"
    /\ calls = [i \in Slots |-> NoCall]
    /\ last = NoCall

Init == Constructor(Urls)

InitUrl == Constructor(AllUrls)

---------------------------------------------------------------------------
(* AIClient.setOpenAIBaseUrl *)

SetOpenAIBaseUrlTo(urls) ==
    /\ \E u \in urls :
         /\ openAIBaseUrl' = StripTrailingSlash(u)
         /\ lastUrlArg' = u
    /\ urlSetBy' = "setOpenAIBaseUrl"
    /\ UNCHANGED <<calls, last>>

SetOpenAIBaseUrl == SetOpenAIBaseUrlTo(Urls)

SetAnyOpenAIBaseUrl == SetOpenAIBaseUrlTo(AllUrls)

---------------------------------------------------------------------------
(* AIClient.streamText and AIClient.generateEmbedding, up to their first   *)
(* await.  Both reach `await this.getOpenAIApiConfiguration()`, which runs *)
(* synchronously up to `await this.apiKeyManager.getOpenAIApiKey()`: the   *)
(* key is requested in the same run of code that invoked the operation.    *)

\* a mutation of StreamTextInvoke: the prompt is logged after the key request
StreamTextInvokeLogLate(prompt) ==
    NewCall("streamText", prompt, <<CredEvent, LogEvent(prompt)>>)

\* this.logger.log([...]) and then the key request
StreamTextInvoke(prompt) ==
    NewCall("streamText", prompt, <<LogEvent(prompt), CredEvent>>)

\* the key request alone (generateEmbedding does not log)
GenerateEmbeddingInvoke(input) ==
    NewCall("generateEmbedding", input, <<CredEvent>>)

\* the free slot a new call takes
FreeSlot == CHOOSE i \in Slots \ InFlight : \A j \in Slots \ InFlight : i <= j

StartStreamText ==
    /\ InFlight # Slots
    /\ \E p \in Prompts : calls' = [calls EXCEPT ![FreeSlot] = StreamTextInvoke(p)]
    /\ UNCHANGED <<openAIBaseUrl, last, lastUrlArg, urlSetBy>>

StartGenerateEmbedding ==
    /\ InFlight # Slots
    /\ \E p \in Inputs : calls' = [calls EXCEPT ![FreeSlot] = GenerateEmbeddingInvoke(p)]
    /\ UNCHANGED <<openAIBaseUrl, last, lastUrlArg, urlSetBy>>

---------------------------------------------------------------------------
(* getOpenAIApiConfiguration resumes with the key the ApiKeyManager        *)
(* returned: any key, or undefined.  It reads this.openAIBaseUrl now.      *)

\* a mutation of KeyReturns: the base URL is the one stored when the call
\* was invoked
KeyReturnsUrlAtStart(call, apiKey, url) ==
    [call EXCEPT !.pc = "awaitConfig", !.keyReturned = apiKey,
                 !.cfg = OpenAIApiConfiguration(call.baseUrlAtStart, apiKey)]

\* a mutation of KeyReturns: the key of the previous configuration is reused
KeyReturnsCached(call, apiKey, url) ==
    LET k == IF last.cfg.built /\ apiKey # Undefined THEN last.cfg.apiKey ELSE apiKey
    IN  [call EXCEPT !.pc = "awaitConfig", !.keyReturned = apiKey,
                     !.cfg = OpenAIApiConfiguration(url, k)]

KeyReturns(call, apiKey, url) ==
    [call EXCEPT !.pc = "awaitConfig", !.keyReturned = apiKey,
                 !.cfg = OpenAIApiConfiguration(url, apiKey)]

GetOpenAIApiConfiguration ==
    /\ \E c \in InFlight, k \in KeyValues :
         /\ calls[c].pc = "awaitKey"
         /\ calls' = [calls EXCEPT ![c] = KeyReturns(calls[c], k, openAIBaseUrl)]
    /\ UNCHANGED <<openAIBaseUrl, last, lastUrlArg, urlSetBy>>

---------------------------------------------------------------------------
(* The operation resumes from `await this.getOpenAIApiConfiguration()`     *)

\* a mutation of Dispatch: the request goes to the base URL stored now
DispatchLiveUrl(call) ==
    [call EXCEPT !.pc = "awaitNet",
                 !.trace = Append(@, NetEvent([call.cfg EXCEPT !.baseUrl = openAIBaseUrl]))]

\* the modelfusion call (streamText / embed) issues the network request with
\* the configuration object it was given
Dispatch(call) ==
    [call EXCEPT !.pc = "awaitNet", !.trace = Append(@, NetEvent(call.cfg))]

\* a mutation of StreamTextResume: the model setting is not validated
StreamTextResumeNoValidation(call, setting) ==
    IF ~call.cfg.built
    THEN [call EXCEPT !.pc = "done", !.modelSetting = setting,
                      !.outcome = Rejected("MissingCredential")]
    ELSE Dispatch([call EXCEPT !.modelSetting = setting])

\* a mutation of StreamTextResume: the model setting is validated after the
\* request was dispatched
StreamTextResumeValidateLate(call, setting) ==
    IF ~call.cfg.built
    THEN [call EXCEPT !.pc = "done", !.modelSetting = setting,
                      !.outcome = Rejected("MissingCredential")]
    ELSE IF ~GetOpenAIChatModel(setting).ok
    THEN [Dispatch(call) EXCEPT !.pc = "done", !.modelSetting = setting,
                                !.outcome = Rejected("ConfigurationError")]
    ELSE Dispatch([call EXCEPT !.modelSetting = setting])

\* streamText after the await: the error of getOpenAIApiConfiguration
\* propagates; else getOpenAIChatModel() is evaluated (it may throw), and then
\* the request is dispatched.  modelSetting is history: the "rubberduck.model"
\* setting at this moment, also on the path that throws before reading it.
StreamTextResume(call, setting) ==
    IF ~call.cfg.built
    THEN [call EXCEPT !.pc = "done", !.modelSetting = setting,
                      !.outcome = Rejected("MissingCredential")]
    ELSE IF ~GetOpenAIChatModel(setting).ok
    THEN [call EXCEPT !.pc = "done", !.modelSetting = setting,
                      !.outcome = Rejected("ConfigurationError")]
    ELSE Dispatch([call EXCEPT !.modelSetting = setting])

\* generateEmbedding after the await: the error of getOpenAIApiConfiguration
\* is caught and returned; else the request is dispatched
GenerateEmbeddingResume(call) ==
    IF ~call.cfg.built
    THEN [call EXCEPT !.pc = "done", !.outcome = EmbedError("MissingCredential")]
    ELSE Dispatch(call)

\* the call in slot c becomes `call`: a settled call leaves its slot
Continue(c, call) ==
    IF call.pc = "done"
    THEN calls' = [calls EXCEPT ![c] = NoCall] /\ last' = call
    ELSE calls' = [calls EXCEPT ![c] = call] /\ last' = last

ResumeStreamText ==
    /\ \E c \in InFlight, m \in ModelSettings :
         /\ calls[c].op = "streamText"
         /\ calls[c].pc = "awaitConfig"
         /\ Continue(c, StreamTextResume(calls[c], m))
    /\ UNCHANGED <<openAIBaseUrl, lastUrlArg, urlSetBy>>

ResumeGenerateEmbedding ==
    /\ \E c \in InFlight :
         /\ calls[c].op = "generateEmbedding"
         /\ calls[c].pc = "awaitConfig"
         /\ Continue(c, GenerateEmbeddingResume(calls[c]))
    /\ UNCHANGED <<openAIBaseUrl, lastUrlArg, urlSetBy>>

---------------------------------------------------------------------------
(* The provider answers the dispatched request *)

\* streamText returns the promise of modelfusion's streamText: a failure of
\* the provider rejects the call
StreamTextSettle(call, r) ==
    [call EXCEPT !.pc = "done", !.response = r,
                 !.outcome = IF r = "ok" THEN Stream ELSE Rejected("ProviderError")]

\* a mutation of GenerateEmbeddingSettle: the provider's failure is not caught
GenerateEmbeddingSettleNoCatch(call, r) ==
    [call EXCEPT !.pc = "done", !.response = r,
                 !.outcome = CASE r = "ok" -> EmbedSuccess
                               [] r = "fail" -> Rejected("ProviderError")
                               [] OTHER -> EmbedError("TypeError")]

\* generateEmbedding: success, or the catch block; a response without a first
\* usage record makes response[0]!.usage throw a TypeError inside the try
GenerateEmbeddingSettle(call, r) ==
    [call EXCEPT !.pc = "done", !.response = r,
                 !.outcome = CASE r = "ok" -> EmbedSuccess
                               [] r = "fail" -> EmbedError("ProviderError")
                               [] OTHER -> EmbedError("TypeError")]

SettleStreamText ==
    /\ \E c \in InFlight, r \in StreamResponses :
         /\ calls[c].op = "streamText"
         /\ calls[c].pc = "awaitNet"
         /\ Continue(c, StreamTextSettle(calls[c], r))
    /\ UNCHANGED <<openAIBaseUrl, lastUrlArg, urlSetBy>>

SettleGenerateEmbedding ==
    /\ \E c \in InFlight, r \in EmbedResponses :
         /\ calls[c].op = "generateEmbedding"
         /\ calls[c].pc = "awaitNet"
         /\ Continue(c, GenerateEmbeddingSettle(calls[c], r))
    /\ UNCHANGED <<openAIBaseUrl, lastUrlArg, urlSetBy>>

---------------------------------------------------------------------------

Next ==
    \/ SetOpenAIBaseUrl
    \/ StartStreamText
    \/ StartGenerateEmbedding
    \/ GetOpenAIApiConfiguration
    \/ ResumeStreamText
    \/ ResumeGenerateEmbedding
    \/ SettleStreamText
    \/ SettleGenerateEmbedding

Spec == Init /\ [][Next]_vars

\* the client alone: construction and setOpenAIBaseUrl over every URL
NextUrl == SetAnyOpenAIBaseUrl

SpecUrl == InitUrl /\ [][NextUrl]_vars

---------------------------------------------------------------------------
(* What the claims speak of *)

Settled == IF last.op = "none" THEN {} ELSE {last}

\* every call the state shows: those in flight and the one settled last
AllCalls == {calls[i] : i \in InFlight} \cup Settled

EventsOf(call, kind) == {i \in DOMAIN call.trace : call.trace[i].ev = kind}

NetCalls(call) == Cardinality(EventsOf(call, "net"))

CredRequests(call) == Cardinality(EventsOf(call, "cred"))

EndsWithSlash(u) == Len(u) > 0 /\ u[Len(u)] = "/"

InvalidModel(call) == call.modelSetting \notin ChatModels \cup {"unread"}

---------------------------------------------------------------------------
\* C1: a call to which the ApiKeyManager returned undefined issues no network
\* request, and it ends in the missing-key error: streamText rejects with it,
\* generateEmbedding resolves to the error result carrying it.
C1_MissingCredentialNoNetwork ==
    \A call \in AllCalls :
        call.keyReturned = Undefined =>
            /\ NetCalls(call) = 0
            /\ ~call.cfg.built
            /\ call.pc \in {"awaitConfig", "done"}
            /\ call.pc = "done" =>
                 IF call.op = "streamText"
                 THEN call.outcome = [settle |-> "rejected", type |-> "none",
                                      error |-> "MissingCredential"]
                 ELSE call.outcome = [settle |-> "resolved", type |-> "error",
                                      error |-> "MissingCredential"]

C1_Witness ==
    /\ last.op = "streamText"
    /\ last.keyReturned = Undefined
    /\ last.outcome.error = "MissingCredential"
    /\ \E i \in InFlight :
         /\ calls[i].op = "generateEmbedding"
         /\ calls[i].keyReturned = Undefined

---------------------------------------------------------------------------
EmbeddingFailure(call) ==
    call.keyReturned = Undefined \/ call.response \in {"fail", "noUsage"}

\* C2: generateEmbedding never rejects: once settled it has resolved, to the
\* error result when the key was missing or the provider failed, and to the
\* success result otherwise.
C2_EmbeddingNeverRaises ==
    \A call \in AllCalls :
        call.op = "generateEmbedding" =>
            /\ call.outcome.settle # "rejected"
            /\ call.pc = "done" =>
                 /\ call.outcome.settle = "resolved"
                 /\ EmbeddingFailure(call) => call.outcome.type = "error"
                 /\ ~EmbeddingFailure(call) => call.outcome.type = "success"

C2_Witness ==
    /\ last.op = "generateEmbedding"
    /\ last.response = "fail"
    /\ last.outcome.type = "error"
    /\ NetCalls(last) = 1

---------------------------------------------------------------------------
\* C3 as stated: the configuration of a streamText call carries the base URL
\* that was stored when the call was invoked, also when setOpenAIBaseUrl ran
\* while the call awaited the key.
C3_ConfigHasUrlAtStart ==
    \A call \in AllCalls :
        call.op = "streamText" /\ call.cfg.built =>
            call.cfg.baseUrl = call.baseUrlAtStart

\* C3 amended: the configuration of a streamText call carries the base URL
\* stored at the moment the key is returned to it: a setOpenAIBaseUrl that ran
\* before that moment is in it, also when the call was invoked earlier.
C3_ConfigHasUrlAtKeyReturn ==
    [][\A i \in Slots :
         calls[i].op = "streamText" /\ calls[i].pc = "awaitKey" /\ calls'[i].cfg.built
            => /\ calls'[i].cfg.baseUrl = openAIBaseUrl
               /\ openAIBaseUrl = StripTrailingSlash(lastUrlArg)]_vars

C3_Witness ==
    \E i \in InFlight :
        /\ calls[i].op = "streamText"
        /\ calls[i].cfg.built
        /\ calls[i].cfg.baseUrl # calls[i].baseUrlAtStart
        /\ calls[i].cfg.baseUrl = openAIBaseUrl
        /\ urlSetBy = "setOpenAIBaseUrl"

---------------------------------------------------------------------------
\* what becomes of the call in flight in slot i in a step: it stays in its
\* slot, or it settles
After(i) == IF calls'[i].op = "none" THEN last' ELSE calls'[i]

\* C4: once a call has built its configuration no step changes it, whatever
\* setOpenAIBaseUrl does later, and the network request of the call goes to
\* the configuration's base URL; a configuration being built carries the
\* stripped URL of the latest setOpenAIBaseUrl (or of the constructor).
C4_ConfigurationIsCaptured ==
    [][\A i \in InFlight :
         /\ calls[i].cfg.built => After(i).cfg = calls[i].cfg
         /\ \A n \in EventsOf(After(i), "net") :
              After(i).trace[n].baseUrl = After(i).cfg.baseUrl
         /\ ~calls[i].cfg.built /\ After(i).cfg.built =>
              After(i).cfg.baseUrl = StripTrailingSlash(lastUrlArg)]_vars

C4_Witness ==
    /\ urlSetBy = "setOpenAIBaseUrl"
    /\ \E call \in AllCalls :
         /\ call.cfg.built
         /\ NetCalls(call) = 1
         /\ call.cfg.baseUrl # openAIBaseUrl
         /\ \A n \in EventsOf(call, "net") : call.trace[n].baseUrl # openAIBaseUrl

---------------------------------------------------------------------------
\* C5: the stored base URL, and the base URL of every configuration built
\* from it, never ends with a slash.
C5_NoTrailingSlash ==
    /\ ~EndsWithSlash(openAIBaseUrl)
    /\ \A call \in AllCalls : call.cfg.built => ~EndsWithSlash(call.cfg.baseUrl)

---------------------------------------------------------------------------
\* C6: the constructor and setOpenAIBaseUrl store the URL they are given with
\* exactly one trailing slash removed if it ends with one, unchanged if not;
\* a URL ending with two slashes is stored ending with one.
C6_StripsExactlyOneSlash ==
    /\ EndsWithSlash(lastUrlArg) =>
         /\ Len(openAIBaseUrl) = Len(lastUrlArg) - 1
         /\ \A i \in 1..Len(openAIBaseUrl) : openAIBaseUrl[i] = lastUrlArg[i]
    /\ ~EndsWithSlash(lastUrlArg) => openAIBaseUrl = lastUrlArg
    /\ (Len(lastUrlArg) >= 2 /\ lastUrlArg[Len(lastUrlArg) - 1] = "/"
            /\ EndsWithSlash(lastUrlArg))
         => EndsWithSlash(openAIBaseUrl)

C6_Witness ==
    /\ urlSetBy = "setOpenAIBaseUrl"
    /\ lastUrlArg = <<"a", ":", "/", "/">>
    /\ openAIBaseUrl = <<"a", ":", "/">>

---------------------------------------------------------------------------
\* C7: a streamText call makes exactly one log call, its first event, with the
\* start marker, the prompt and the end marker; the key request and the
\* network request come after it; this holds whatever the outcome.
C7_LogsPromptFirst ==
    \A call \in AllCalls :
        call.op = "streamText" =>
            /\ Len(call.trace) >= 2
            /\ call.trace[1].ev = "log"
            /\ call.trace[1].lines =
                 <<"--- Start OpenAI prompt ---", call.prompt, "--- End OpenAI prompt ---">>
            /\ EventsOf(call, "log") = {1}
            /\ \A i \in EventsOf(call, "cred") \cup EventsOf(call, "net") : i > 1

C7_Witness ==
    /\ last.op = "streamText"
    /\ last.outcome.error = "ProviderError"
    /\ last.prompt = "refactor"
    /\ \E i \in InFlight : calls[i].op = "streamText" /\ calls[i].prompt = "explain"

---------------------------------------------------------------------------
\* C8 as stated: a streamText call made while the model setting is outside
\* the enumeration fails with the configuration error, without a network
\* request.
C8_InvalidModelIsConfigurationError ==
    \A call \in AllCalls :
        call.op = "streamText" /\ call.pc = "done" /\ InvalidModel(call) =>
            /\ call.outcome = Rejected("ConfigurationError")
            /\ NetCalls(call) = 0

\* C8 amended: a streamText call made while the model setting is outside the
\* enumeration issues no network request; it fails with the configuration
\* error if the key was returned, and with the missing-key error if not (the
\* key is checked first).
C8_InvalidModelFailsBeforeNetwork ==
    \A call \in AllCalls :
        call.op = "streamText" /\ call.modelSetting \notin ChatModels \cup {"unread"} =>
            /\ NetCalls(call) = 0
            /\ call.pc = "done"
            /\ call.outcome.settle = "rejected"
            /\ call.keyReturned # Undefined => call.outcome.error = "ConfigurationError"
            /\ call.keyReturned = Undefined => call.outcome.error = "MissingCredential"

C8_Witness ==
    /\ last.op = "streamText"
    /\ last.modelSetting = "text-davinci-003"
    /\ last.keyReturned \in Keys
    /\ last.outcome.error = "ConfigurationError"

---------------------------------------------------------------------------
ValidationError(call) ==
    \/ call.keyReturned = Undefined
    \/ call.op = "streamText" /\ call.cfg.built /\ InvalidModel(call)

\* C9 as stated: in both operations a validation error (missing key, invalid
\* model) rejects the call, before any network request.
C9_ValidationErrorsAreRaised ==
    \A call \in AllCalls :
        call.pc = "done" /\ ValidationError(call) =>
            /\ call.outcome.settle = "rejected"
            /\ NetCalls(call) = 0

\* C9 amended: a validation error comes before any network request in both
\* operations; streamText rejects with it, and generateEmbedding, whose only
\* validation error is the missing key, resolves to the error result.
C9_ValidationErrorsPrecedeNetwork ==
    \A call \in AllCalls :
        call.pc = "done" /\ ValidationError(call) =>
            /\ NetCalls(call) = 0
            /\ call.outcome.error \in {"MissingCredential", "ConfigurationError"}
            /\ call.op = "streamText" => call.outcome.settle = "rejected"
            /\ call.op = "generateEmbedding" =>
                 /\ call.outcome.settle = "resolved"
                 /\ call.outcome.type = "error"

C9_Witness ==
    /\ last.op = "generateEmbedding"
    /\ last.keyReturned = Undefined
    /\ last.outcome.settle = "resolved"
    /\ last.outcome.error = "MissingCredential"

---------------------------------------------------------------------------
\* C10: every call requests the key exactly once, and the key of its
\* configuration and of its network request is the key returned to that
\* request, whatever key an earlier call was given.
C10_KeyIsNeverCached ==
    \A call \in AllCalls :
        /\ CredRequests(call) = 1
        /\ call.cfg.built =>
             /\ call.cfg.apiKey = call.keyReturned
             /\ \A n \in EventsOf(call, "net") : call.trace[n].apiKey = call.keyReturned

C10_Witness ==
    /\ last.cfg.built
    /\ \E i \in InFlight :
         /\ calls[i].cfg.built
         /\ NetCalls(calls[i]) = 1
         /\ calls[i].cfg.apiKey # last.cfg.apiKey

====
